---- MODULE Spec2Model ----
(***************************************************************************)
(* Guardrails service (src/backend/guardrails-service/src/main.rs).       *)
(*                                                                         *)
(* The model follows evaluate_guardrails statement by statement: the three *)
(* built-in checks, the policy fetch, the policy loop, the audit insert    *)
(* and the response, each a step of a request's program counter, and       *)
(* create_policy as the writer of the policies table.                      *)
(*                                                                         *)
(* Strings are sequences of one-character strings, so that contains(),     *)
(* to_lowercase() and format!() are computed as the code computes them.    *)
(*                                                                         *)
(* The declaration of audit_policy_id stands at line 130, after the loop   *)
(* that assigns it (lines 97-119): the model reads the loop's assignments  *)
(* as those of a variable that is None when the loop starts, and the       *)
(* declaration of line 130 as what the insert reads. The closing braces of *)
(* lines 104 and 110 are read as ending the branch they follow, so that   *)
(* the four branches on policy_type form one if / else if chain.          *)
(*                                                                         *)
(* Left out: customer_id, created_at, timestamp, latency_ms and the        *)
(* request's context (no statement of evaluate_guardrails reads them back),*)
(* and get_policies (it reads the table and changes nothing).              *)
(***************************************************************************)
EXTENDS Integers, Sequences, FiniteSets, TLC

----------------------------------------------------------------------------
(* Bounds of the model *)

\* rows the policies table can hold
MaxPolicies == 2

\* evaluation requests (one handler invocation each)
NumReqs == 2

Reqs == 1..NumReqs

----------------------------------------------------------------------------
(* Option<T> and strings *)

None == [some |-> FALSE]

Some(x) == [some |-> TRUE, val |-> x]

\* the printable ASCII characters, code 32 (space) to 126 (~), in code order
\* (the quote, the backslash and the backquote stand as their code points)
ASCII ==
  <<
    " ","!","U+0022","#","$","%","&","'","(",")","*","+",",","-",".","/",
    "0","1","2","3","4","5","6","7","8","9",":",";","<","=",">","?",
    "@","A","B","C","D","E","F","G","H","I","J","K","L","M","N","O",
    "P","Q","R","S","T","U","V","W","X","Y","Z","[","U+005C","]","^","_",
    "U+0060","a","b","c","d","e","f","g","h","i","j","k","l","m","n","o",
    "p","q","r","s","t","u","v","w","x","y","z","{","|","}","~"
  >>

Code == [c \in {ASCII[i] : i \in 1..Len(ASCII)} |->
           31 + (CHOOSE i \in 1..Len(ASCII) : ASCII[i] = c)]

\* char::to_lowercase on ASCII: 'A'..'Z' (65..90) map to 'a'..'z' (+32)
LowerChar == [c \in DOMAIN Code |->
                IF Code[c] >= 65 /\ Code[c] <= 90 THEN ASCII[Code[c] + 32 - 31] ELSE c]

\* str::to_lowercase
to_lowercase(s) == [i \in 1..Len(s) |-> LowerChar[s[i]]]

\* str::contains(&str): pat occurs in s as a contiguous substring
contains(s, pat) ==
    \/ Len(pat) = 0
    \/ \E i \in 1..(Len(s) - Len(pat) + 1) :
          /\ s[i] = pat[1]
          /\ SubSeq(s, i, i + Len(pat) - 1) = pat

\* sha256::digest, at reduced width: a deterministic digest of the bytes of
\* the text (a polynomial checksum modulo 2^16 stands for the 256-bit hash)
RECURSIVE digest_from(_, _, _)
digest_from(s, i, h) ==
    IF i > Len(s) THEN h
    ELSE digest_from(s, i + 1, (h * 31 + Code[s[i]]) % 65536)

sha256_digest(s) == digest_from(s, 1, 7)

----------------------------------------------------------------------------
(* String literals of evaluate_guardrails *)

SSN == \* "SSN"
    <<"S","S","N">>

CREDIT_CARD == \* "credit card"
    <<"c","r","e","d","i","t"," ","c","a","r","d">>

VIOLENCE == \* "violence"
    <<"v","i","o","l","e","n","c","e">>

IGNORE_ALL == \* "ignore all previous instructions"
    <<"i","g","n","o","r","e"," ","a","l","l"," ","p","r","e","v","i","o","u","s"," ","i","n","s","t","r","u","c","t","i","o","n","s">>

REASON_DEFAULT == \* "No issues detected."
    <<"N","o"," ","i","s","s","u","e","s"," ","d","e","t","e","c","t","e","d",".">>

REASON_PII == \* "PII detected in prompt."
    <<"P","I","I"," ","d","e","t","e","c","t","e","d"," ","i","n"," ","p","r","o","m","p","t",".">>

REASON_CONTENT_SAFETY == \* "Content safety violation detected (Mocked)."
    <<"C","o","n","t","e","n","t"," ","s","a","f","e","t","y"," ","v","i","o","l","a","t","i","o","n"," ","d","e","t","e","c","t","e","d"," ","(","M","o","c","k","e","d",")",".">>

REASON_PROMPT_INJECTION == \* "Potential prompt injection detected (Mocked)."
    <<"P","o","t","e","n","t","i","a","l"," ","p","r","o","m","p","t"," ","i","n","j","e","c","t","i","o","n"," ","d","e","t","e","c","t","e","d"," ","(","M","o","c","k","e","d",")",".">>

PII_DETECTED == \* "PII detected"
    <<"P","I","I"," ","d","e","t","e","c","t","e","d">>

CONTENT_SAFETY == \* "Content safety"
    <<"C","o","n","t","e","n","t"," ","s","a","f","e","t","y">>

PROMPT_INJECTION == \* "prompt injection"
    <<"p","r","o","m","p","t"," ","i","n","j","e","c","t","i","o","n">>

CHECK_PII == \* "PII_Detection"
    <<"P","I","I","_","D","e","t","e","c","t","i","o","n">>

CHECK_CONTENT_SAFETY == \* "Content_Safety"
    <<"C","o","n","t","e","n","t","_","S","a","f","e","t","y">>

CHECK_PROMPT_INJECTION == \* "Prompt_Injection"
    <<"P","r","o","m","p","t","_","I","n","j","e","c","t","i","o","n">>

CUSTOM_POLICY_PREFIX == \* "Custom_Policy:"
    <<"C","u","s","t","o","m","_","P","o","l","i","c","y",":">>

REASON_CUSTOM_1 == \* "Custom policy '"
    <<"C","u","s","t","o","m"," ","p","o","l","i","c","y"," ","'">>

REASON_CUSTOM_2 == \* "' triggered by keyword '"
    <<"'"," ","t","r","i","g","g","e","r","e","d"," ","b","y"," ","k","e","y","w","o","r","d"," ","'">>

REASON_CUSTOM_3 == \* "'."
    <<"'",".">>

\* format!("Custom policy '{}' triggered by keyword '{}'.", policy.name, keyword)
format_custom_reason(name, keyword) ==
    REASON_CUSTOM_1 \o name \o REASON_CUSTOM_2 \o keyword \o REASON_CUSTOM_3

\* format!("Custom_Policy:{}", policy.name)
format_custom_check(name) == CUSTOM_POLICY_PREFIX \o name

----------------------------------------------------------------------------
(* serde_json::Value, as far as rule_json is read *)

JsonNull == [t |-> "null"]

JsonString(s) == [t |-> "string", s |-> s]

JsonNumber(n) == [t |-> "number", n |-> n]

JsonArray(items) == [t |-> "array", items |-> items]

JsonObject(members) == [t |-> "object", members |-> members]

\* Value::index(&str): the member, or Null when absent or not an object
json_index(v, key) ==
    IF v.t = "object" /\ key \in DOMAIN v.members THEN v.members[key] ELSE JsonNull

\* Value::as_array
as_array(v) == IF v.t = "array" THEN Some(v.items) ELSE None

\* Value::as_str
as_str(v) == IF v.t = "string" THEN Some(v.s) ELSE None

----------------------------------------------------------------------------
(* Inputs: agents, request texts and the policies clients create *)

Agents == {"agent-A", "agent-B"}

TEXT_BENIGN == \* "my ssn"
    <<"m","y"," ","s","s","n">>

TEXT_SSN == \* "My SSN is 123"
    <<"M","y"," ","S","S","N"," ","i","s"," ","1","2","3">>

TEXT_CARD_WIDGET == \* "credit card widget"
    <<"c","r","e","d","i","t"," ","c","a","r","d"," ","w","i","d","g","e","t">>

TEXT_VIOLENCE == \* "VIOLENCE"
    <<"V","I","O","L","E","N","C","E">>

TEXT_INJECT == \* "Ignore all previous instructions"
    <<"I","g","n","o","r","e"," ","a","l","l"," ","p","r","e","v","i","o","u","s"," ","i","n","s","t","r","u","c","t","i","o","n","s">>

TEXT_WIDGET == \* "buy a Widget"
    <<"b","u","y"," ","a"," ","W","i","d","g","e","t">>

TEXT_INJECT_WIDGET == \* "ignore all previous instructions widget"
    <<"i","g","n","o","r","e"," ","a","l","l"," ","p","r","e","v","i","o","u","s"," ","i","n","s","t","r","u","c","t","i","o","n","s"," ","w","i","d","g","e","t">>

TEXT_ALL == \* "SSN violence ignore all previous instructions"
    <<"S","S","N"," ","v","i","o","l","e","n","c","e"," ","i","g","n","o","r","e"," ","a","l","l"," ","p","r","e","v","i","o","u","s"," ","i","n","s","t","r","u","c","t","i","o","n","s">>

TEXT_FOO == \* "this has FOO and bar"
    <<"t","h","i","s"," ","h","a","s"," ","F","O","O"," ","a","n","d"," ","b","a","r">>

Texts ==
    {TEXT_BENIGN,
     TEXT_SSN,
     TEXT_CARD_WIDGET,
     TEXT_VIOLENCE,
     TEXT_INJECT,
     TEXT_WIDGET,
     TEXT_INJECT_WIDGET,
     TEXT_ALL,
     TEXT_FOO}

NAME_BLK == \* "blk"
    <<"b","l","k">>

WIDGET == \* "widget"
    <<"w","i","d","g","e","t">>

WIDGET_UPPER == \* "WIDGET"
    <<"W","I","D","G","E","T">>

BAR == \* "Bar"
    <<"B","a","r">>

FOO == \* "foo"
    <<"f","o","o">>

NAME_X == \* "x"
    <<"x">>

NAME_B == \* "b"
    <<"b">>

\* struct Policy (customer_id and created_at left out)
Policy(id, name, agent_id, policy_type, rule_json, enabled) ==
    [id |-> id, name |-> name, agent_id |-> agent_id,
     policy_type |-> policy_type, rule_json |-> rule_json, enabled |-> enabled]

\* {"deny_keywords": [7, "Bar", "WIDGET", "foo"]}
RULE_KEYWORDS ==
    JsonObject([deny_keywords |->
        JsonArray(<<JsonNumber(7), JsonString(BAR),
                    JsonString(WIDGET_UPPER), JsonString(FOO)>>)])

\* {"deny_keywords": ["widget"]}
RULE_WIDGET == JsonObject([deny_keywords |-> JsonArray(<<JsonString(WIDGET)>>)])

\* {"deny_keywords": "widget"}: deny_keywords is not an array
RULE_NOT_ARRAY == JsonObject([deny_keywords |-> JsonString(WIDGET)])

PolicyIds ==
    {"p-pii", "p-cs", "p-pi", "p-kw", "p-bad", "p-norule", "p-scoped", "p-off"}

\* the policies clients POST to /v1/policies, by id (the table's primary key)
PolicyOf(id) ==
    CASE id = "p-pii"    -> Policy(id, NAME_X, None, "pii", None, TRUE)
      [] id = "p-cs"     -> Policy(id, NAME_X, None, "content_safety", None, TRUE)
      [] id = "p-pi"     -> Policy(id, NAME_X, None, "prompt_injection", None, TRUE)
      [] id = "p-kw"     -> Policy(id, NAME_BLK, None, "custom", Some(RULE_KEYWORDS), TRUE)
      [] id = "p-bad"    -> Policy(id, NAME_X, None, "custom", Some(RULE_NOT_ARRAY), TRUE)
      [] id = "p-norule" -> Policy(id, NAME_X, None, "custom", None, TRUE)
      [] id = "p-scoped" -> Policy(id, NAME_B, Some("agent-B"), "custom", Some(RULE_WIDGET), TRUE)
      [] id = "p-off"    -> Policy(id, NAME_X, None, "custom", Some(RULE_WIDGET), FALSE)

\* what Uuid::new_v4() can return: random ids, none of them a policy's
RandomUuids == {"uuid-r1", "uuid-r2"}

----------------------------------------------------------------------------
(* State *)

VARIABLES
    policies_table,   \* table policies: the ids of its rows, in scan order
    audit_logs,       \* table audit_logs: its rows, in insertion order
    pc,               \* per request: where evaluate_guardrails stands
    agent_id,         \* req.agent_id
    input_text,       \* req.input_text
    decision,         \* let mut decision
    reason,           \* let mut reason
    checks_run,       \* let mut checks_run
    audit_policy_id,  \* audit_policy_id as the policy loop assigns it
    policies,         \* the result of the policy fetch
    scanned,          \* how many elements the iterator of the for loop has yielded
    response          \* what the caller received

vars == <<policies_table, audit_logs, pc, agent_id, input_text, decision, reason,
          checks_run, audit_policy_id, policies, scanned, response>>

locals == <<agent_id, input_text, decision, reason, checks_run, audit_policy_id,
            policies, scanned>>

\* the mutable locals of one evaluation, as one record
Locals(r) ==
    [decision |-> decision[r], reason |-> reason[r],
     checks_run |-> checks_run[r], audit_policy_id |-> audit_policy_id[r]]

----------------------------------------------------------------------------
(* The statements of evaluate_guardrails, as functions of the locals *)

\* lines 52-56
pii_detection(L, text) ==
    IF contains(text, SSN) \/ contains(text, CREDIT_CARD)
    THEN [L EXCEPT !.decision = "DENIED",
                   !.reason = REASON_PII,
                   !.checks_run = Append(@, CHECK_PII)]
    ELSE L

\* content_safety_check without the test that no DENY was issued yet
content_safety_check_unguarded(L, text) ==
    IF contains(to_lowercase(text), VIOLENCE)
    THEN [L EXCEPT !.decision = "DENIED",
                   !.reason = REASON_CONTENT_SAFETY,
                   !.checks_run = Append(@, CHECK_CONTENT_SAFETY)]
    ELSE L

\* lines 60-64
content_safety_check(L, text) ==
    IF L.decision # "DENIED" /\ contains(to_lowercase(text), VIOLENCE)
    THEN [L EXCEPT !.decision = "DENIED",
                   !.reason = REASON_CONTENT_SAFETY,
                   !.checks_run = Append(@, CHECK_CONTENT_SAFETY)]
    ELSE L

\* lines 70-73: only WARN if no DENY has been issued yet
warn_if_allowed(L) ==
    IF L.decision = "ALLOWED"
    THEN [L EXCEPT !.decision = "WARN", !.reason = REASON_PROMPT_INJECTION]
    ELSE L

\* prompt_injection_check without its guards: a finding always sets WARN
prompt_injection_check_unguarded(L, text) ==
    IF contains(to_lowercase(text), IGNORE_ALL)
    THEN [L EXCEPT !.decision = "WARN",
                   !.reason = REASON_PROMPT_INJECTION,
                   !.checks_run = Append(@, CHECK_PROMPT_INJECTION)]
    ELSE L

\* lines 68-75
prompt_injection_check(L, text) ==
    IF L.decision # "DENIED" /\ contains(to_lowercase(text), IGNORE_ALL)
    THEN [warn_if_allowed(L) EXCEPT !.checks_run = Append(@, CHECK_PROMPT_INJECTION)]
    ELSE L

\* the WHERE clause of the policy lookup, lines 78-83
applicable(p, agent) ==
    /\ p.enabled = TRUE
    /\ (~p.agent_id.some \/ p.agent_id.val = agent)

fetch_all(table, agent) ==
    SelectSeq(table, LAMBDA id : applicable(PolicyOf(id), agent))

\* first_match without the break of line 98: the last matching element wins
last_match(deny_keywords, text, i) ==
    LET hits == {j \in i..Len(deny_keywords) :
                    /\ as_str(deny_keywords[j]).some
                    /\ contains(to_lowercase(text),
                                to_lowercase(as_str(deny_keywords[j]).val))}
    IN  IF hits = {} THEN 0 ELSE CHOOSE j \in hits : \A k \in hits : k <= j

\* lines 91-101: the first element of deny_keywords that is a string and whose
\* lowercase occurs in the lowercased input; the index of it, 0 when none
RECURSIVE first_match(_, _, _)
first_match(deny_keywords, text, i) ==
    IF i > Len(deny_keywords) THEN 0
    ELSE LET keyword == as_str(deny_keywords[i])
         IN  IF keyword.some /\ contains(to_lowercase(text), to_lowercase(keyword.val))
             THEN i
             ELSE first_match(deny_keywords, text, i + 1)

\* lines 88-103: the keyword that triggers the custom policy, if one does
matched_keyword(policy, text) ==
    IF ~policy.rule_json.some THEN None
    ELSE LET deny_keywords == as_array(json_index(policy.rule_json.val, "deny_keywords"))
         IN  IF ~deny_keywords.some THEN None
             ELSE LET i == first_match(deny_keywords.val, text, 1)
                  IN  IF i = 0 THEN None ELSE as_str(deny_keywords.val[i])

\* custom_policy_triggered keeping an earlier attribution, as the other
\* branches of the loop do
custom_policy_triggered_keep_first(L, policy, keyword) ==
    [decision |-> "DENIED",
     reason |-> format_custom_reason(policy.name, keyword),
     checks_run |-> Append(L.checks_run, format_custom_check(policy.name)),
     audit_policy_id |-> IF L.audit_policy_id.some THEN L.audit_policy_id
                         ELSE Some(policy.id)]

\* lines 94-97
custom_policy_triggered(L, policy, keyword) ==
    [decision |-> "DENIED",
     reason |-> format_custom_reason(policy.name, keyword),
     checks_run |-> Append(L.checks_run, format_custom_check(policy.name)),
     audit_policy_id |-> Some(policy.id)]

\* associate without the test of decision and reason: the first policy of a
\* built-in type is attributed whatever the checks found
associate_any(L, policy, dec, needle) ==
    IF ~L.audit_policy_id.some
    THEN [L EXCEPT !.audit_policy_id = Some(policy.id)]
    ELSE L

\* associate testing the decision alone, not which check produced it
associate_by_decision(L, policy, dec, needle) ==
    IF L.decision = dec /\ ~L.audit_policy_id.some
    THEN [L EXCEPT !.audit_policy_id = Some(policy.id)]
    ELSE L

\* lines 107, 113, 118: associate the policy with what a built-in check found
associate(L, policy, dec, needle) ==
    IF L.decision = dec /\ contains(L.reason, needle) /\ ~L.audit_policy_id.some
    THEN [L EXCEPT !.audit_policy_id = Some(policy.id)]
    ELSE L

\* policy_body where a custom policy that does not match clears the decision
policy_body_last_wins(L, policy, text) ==
    IF policy.policy_type = "custom"
    THEN LET keyword == matched_keyword(policy, text)
         IN  IF keyword.some THEN custom_policy_triggered(L, policy, keyword.val)
             ELSE [L EXCEPT !.decision = "ALLOWED", !.reason = REASON_DEFAULT]
    ELSE IF policy.policy_type = "pii"
    THEN associate(L, policy, "DENIED", PII_DETECTED)
    ELSE IF policy.policy_type = "content_safety"
    THEN associate(L, policy, "DENIED", CONTENT_SAFETY)
    ELSE IF policy.policy_type = "prompt_injection"
    THEN associate(L, policy, "WARN", PROMPT_INJECTION)
    ELSE L

\* lines 87-121: the body of the policy loop, up to its last statement
policy_body(L, policy, text) ==
    IF policy.policy_type = "custom"
    THEN LET keyword == matched_keyword(policy, text)
         IN  IF keyword.some THEN custom_policy_triggered(L, policy, keyword.val) ELSE L
    ELSE IF policy.policy_type = "pii"
    THEN associate(L, policy, "DENIED", PII_DETECTED)
    ELSE IF policy.policy_type = "content_safety"
    THEN associate(L, policy, "DENIED", CONTENT_SAFETY)
    ELSE IF policy.policy_type = "prompt_injection"
    THEN associate(L, policy, "WARN", PROMPT_INJECTION)
    ELSE L

\* loop_breaks leaving the loop on a WARN as well
loop_breaks_on_finding(dec) == dec # "ALLOWED"

\* line 123: if decision == "DENIED" { break; }
loop_breaks(dec) == dec = "DENIED"

\* line 85: if let Ok(policies) = policies: what the loop iterates over
rows_to_scan(fetched) == IF fetched.ok THEN fetched.rows ELSE <<>>

\* on_fetch_err failing open: the fault clears what the checks found
on_fetch_err_fail_open(L) ==
    [L EXCEPT !.decision = "ALLOWED", !.reason = REASON_DEFAULT]

\* lines 85, 125: the if let has no else branch, an Err leaves the locals as they are
on_fetch_err(L) == L

\* line 130: let mut audit_policy_id: Option<Uuid> = None; the name is declared
\* anew after the loop, so the insert reads None whatever the loop assigned
audit_policy_id_at_insert(assigned) == None

\* line 136: audit_policy_id.unwrap_or_else(Uuid::new_v4)
unwrap_or_else(opt, fresh) == IF opt.some THEN opt.val ELSE fresh

\* audit_row with a digest taken over the text together with the reason
audit_row_digest_of_outcome(r, serial, fresh) ==
    [id |-> serial,
     agent_id |-> agent_id[r],
     policy_id |-> unwrap_or_else(audit_policy_id_at_insert(audit_policy_id[r]), fresh),
     input_hash |-> sha256_digest(input_text[r] \o reason[r]),
     decision |-> decision[r]]

\* lines 133-141: the row of audit_logs (id is the SERIAL column)
audit_row(r, serial, fresh) ==
    [id |-> serial,
     agent_id |-> agent_id[r],
     policy_id |-> unwrap_or_else(audit_policy_id_at_insert(audit_policy_id[r]), fresh),
     input_hash |-> sha256_digest(input_text[r]),
     decision |-> decision[r]]

\* lines 146-150
EvaluateResponse(r) ==
    [decision |-> decision[r], reason |-> reason[r], checks_run |-> checks_run[r]]

----------------------------------------------------------------------------
(* Initial state: empty tables, no request received yet *)

Init ==
    /\ policies_table = <<>>
    /\ audit_logs = <<>>
    /\ pc = [r \in Reqs |-> "idle"]
    /\ agent_id = [r \in Reqs |-> "none"]
    /\ input_text = [r \in Reqs |-> <<>>]
    /\ decision = [r \in Reqs |-> "ALLOWED"]
    /\ reason = [r \in Reqs |-> <<>>]
    /\ checks_run = [r \in Reqs |-> <<>>]
    /\ audit_policy_id = [r \in Reqs |-> None]
    /\ policies = [r \in Reqs |-> None]
    /\ scanned = [r \in Reqs |-> 0]
    /\ response = [r \in Reqs |-> None]

----------------------------------------------------------------------------
(* evaluate_guardrails, one action per statement group *)

\* SetLocals with one decision and one reason shared by all requests
SetLocalsShared(r, L) ==
    /\ decision' = [q \in Reqs |-> L.decision]
    /\ reason' = [q \in Reqs |-> L.reason]
    /\ checks_run' = [checks_run EXCEPT ![r] = L.checks_run]
    /\ audit_policy_id' = [audit_policy_id EXCEPT ![r] = L.audit_policy_id]

SetLocals(r, L) ==
    /\ decision' = [decision EXCEPT ![r] = L.decision]
    /\ reason' = [reason EXCEPT ![r] = L.reason]
    /\ checks_run' = [checks_run EXCEPT ![r] = L.checks_run]
    /\ audit_policy_id' = [audit_policy_id EXCEPT ![r] = L.audit_policy_id]

\* lines 45-49: the handler is entered with a request
Receive(r, agent, text) ==
    /\ pc[r] = "idle"
    /\ pc' = [pc EXCEPT ![r] = "pii"]
    /\ agent_id' = [agent_id EXCEPT ![r] = agent]
    /\ input_text' = [input_text EXCEPT ![r] = text]
    /\ SetLocals(r, [decision |-> "ALLOWED", reason |-> REASON_DEFAULT,
                     checks_run |-> <<>>, audit_policy_id |-> None])
    /\ UNCHANGED <<policies_table, audit_logs, policies, scanned, response>>

\* lines 51-56
PIIDetection(r) ==
    /\ pc[r] = "pii"
    /\ pc' = [pc EXCEPT ![r] = "content_safety"]
    /\ SetLocals(r, pii_detection(Locals(r), input_text[r]))
    /\ UNCHANGED <<policies_table, audit_logs, agent_id, input_text, policies,
                   scanned, response>>

\* lines 58-64
ContentSafety(r) ==
    /\ pc[r] = "content_safety"
    /\ pc' = [pc EXCEPT ![r] = "prompt_injection"]
    /\ SetLocals(r, content_safety_check(Locals(r), input_text[r]))
    /\ UNCHANGED <<policies_table, audit_logs, agent_id, input_text, policies,
                   scanned, response>>

\* lines 66-75
PromptInjection(r) ==
    /\ pc[r] = "prompt_injection"
    /\ pc' = [pc EXCEPT ![r] = "fetch"]
    /\ SetLocals(r, prompt_injection_check(Locals(r), input_text[r]))
    /\ UNCHANGED <<policies_table, audit_logs, agent_id, input_text, policies,
                   scanned, response>>

\* lines 78-83, the query returns the rows
FetchOk(r) ==
    /\ pc[r] = "fetch"
    /\ pc' = [pc EXCEPT ![r] = "loop"]
    /\ policies' = [policies EXCEPT ![r] =
                      [ok |-> TRUE, rows |-> fetch_all(policies_table, agent_id[r])]]
    /\ UNCHANGED <<policies_table, audit_logs, agent_id, input_text, decision, reason,
                   checks_run, audit_policy_id, scanned, response>>

\* lines 78-83, the query fails
FetchErr(r) ==
    /\ pc[r] = "fetch"
    /\ pc' = [pc EXCEPT ![r] = "loop"]
    /\ policies' = [policies EXCEPT ![r] = [ok |-> FALSE, rows |-> <<>>]]
    /\ SetLocals(r, on_fetch_err(Locals(r)))
    /\ UNCHANGED <<policies_table, audit_logs, agent_id, input_text, scanned, response>>

\* lines 86-124: one iteration of the policy loop
LoopIteration(r) ==
    /\ pc[r] = "loop"
    /\ scanned[r] < Len(rows_to_scan(policies[r]))
    /\ LET policy == PolicyOf(rows_to_scan(policies[r])[scanned[r] + 1])
           L == policy_body(Locals(r), policy, input_text[r])
       IN  /\ SetLocals(r, L)
           /\ scanned' = [scanned EXCEPT ![r] = @ + 1]
           /\ pc' = [pc EXCEPT ![r] = IF loop_breaks(L.decision) THEN "audit" ELSE "loop"]
    /\ UNCHANGED <<policies_table, audit_logs, agent_id, input_text, policies, response>>

\* lines 85-86, 124-125: nothing (left) to iterate over
LoopExit(r) ==
    /\ pc[r] = "loop"
    /\ scanned[r] >= Len(rows_to_scan(policies[r]))
    /\ pc' = [pc EXCEPT ![r] = "audit"]
    /\ UNCHANGED <<policies_table, audit_logs, locals, response>>

\* lines 127-144, the insert succeeds
AuditInsertOk(r) ==
    /\ pc[r] = "audit"
    /\ \E fresh \in RandomUuids :
          audit_logs' = Append(audit_logs, audit_row(r, Len(audit_logs) + 1, fresh))
    /\ pc' = [pc EXCEPT ![r] = "respond"]
    /\ UNCHANGED <<policies_table, locals, response>>

\* AuditInsertErr that logs the failure and goes on to the response
AuditInsertErrIgnored(r) ==
    /\ pc[r] = "audit"
    /\ pc' = [pc EXCEPT ![r] = "respond"]
    /\ UNCHANGED <<policies_table, audit_logs, locals, response>>

\* lines 127-144, the insert fails: expect() panics and the handler unwinds
AuditInsertErr(r) ==
    /\ pc[r] = "audit"
    /\ pc' = [pc EXCEPT ![r] = "panicked"]
    /\ UNCHANGED <<policies_table, audit_logs, locals, response>>

\* lines 146-150
Respond(r) ==
    /\ pc[r] = "respond"
    /\ response' = [response EXCEPT ![r] = Some(EvaluateResponse(r))]
    /\ pc' = [pc EXCEPT ![r] = "done"]
    /\ UNCHANGED <<policies_table, audit_logs, locals>>

\* the handler for one request, its inputs drawn from the given sets
Evaluate(r, agents, texts) ==
    \/ \E agent \in agents, text \in texts : Receive(r, agent, text)
    \/ PIIDetection(r)
    \/ ContentSafety(r)
    \/ PromptInjection(r)
    \/ FetchOk(r)
    \/ FetchErr(r)
    \/ LoopIteration(r)
    \/ LoopExit(r)
    \/ AuditInsertOk(r)
    \/ AuditInsertErr(r)
    \/ Respond(r)

----------------------------------------------------------------------------
(* create_policy *)

\* lines 153-170: the INSERT succeeds (id is the primary key) and the row is there
CreatePolicyOk(id) ==
    /\ Len(policies_table) < MaxPolicies
    /\ \A i \in 1..Len(policies_table) : policies_table[i] # id
    /\ policies_table' = Append(policies_table, id)
    /\ UNCHANGED <<audit_logs, pc, locals, response>>

\* lines 169-171: the INSERT fails (duplicate key, database error): 500, no row
CreatePolicyErr(id) ==
    /\ UNCHANGED vars

create_policy(ids) ==
    \E id \in ids : CreatePolicyOk(id) \/ CreatePolicyErr(id)

----------------------------------------------------------------------------
(* Specifications *)

\* one evaluation, any agent and text, while policies are being created
Next ==
    \/ Evaluate(1, Agents, Texts)
    \/ create_policy(PolicyIds)

Spec == Init /\ [][Next]_vars

\* NumReqs evaluations in flight at once, over fewer inputs, while policies
\* are being created
ConcAgents == {"agent-A"}

ConcTexts == {TEXT_SSN, TEXT_INJECT_WIDGET}

ConcPolicyIds == {"p-kw"}

NextConc ==
    \/ \E r \in Reqs : Evaluate(r, ConcAgents, ConcTexts)
    \/ create_policy(ConcPolicyIds)

SpecConc == Init /\ [][NextConc]_vars

----------------------------------------------------------------------------
(* Cancellation: the client disconnects and the handler's future is dropped *)
(* at one of its two await points                                          *)

\* line 83: dropped while the policy fetch is awaited
CancelDuringFetch(r) ==
    /\ pc[r] = "fetch"
    /\ pc' = [pc EXCEPT ![r] = "cancelled"]
    /\ UNCHANGED <<policies_table, audit_logs, locals, response>>

\* line 143: dropped while the insert is awaited, before the statement reached
\* the database
CancelBeforeInsert(r) ==
    /\ pc[r] = "audit"
    /\ pc' = [pc EXCEPT ![r] = "cancelled"]
    /\ UNCHANGED <<policies_table, audit_logs, locals, response>>

\* line 143: dropped while the insert is awaited, after the statement reached
\* the database, which executes it
CancelAfterInsertSent(r) ==
    /\ pc[r] = "audit"
    /\ \E fresh \in RandomUuids :
          audit_logs' = Append(audit_logs, audit_row(r, Len(audit_logs) + 1, fresh))
    /\ pc' = [pc EXCEPT ![r] = "cancelled"]
    /\ UNCHANGED <<policies_table, locals, response>>

Cancel(r) ==
    \/ CancelDuringFetch(r)
    \/ CancelBeforeInsert(r)
    \/ CancelAfterInsertSent(r)

\* one evaluation that its client may abandon, while policies are being created
NextCancel ==
    \/ Next
    \/ Cancel(1)

SpecCancel == Init /\ [][NextCancel]_vars

----------------------------------------------------------------------------
(* Vocabulary of the properties *)

\* the loop of request r is over (or was skipped)
LoopOver(r) == pc[r] \in {"audit", "respond", "done", "panicked"}

\* the policy fetch of request r returned rows
Fetched(r) == pc[r] \in {"loop", "audit", "respond", "done", "panicked"} /\ policies[r].ok

\* the policy fetch of request r failed
FetchFailed(r) ==
    pc[r] \in {"loop", "audit", "respond", "done", "panicked"} /\ ~policies[r].ok

PIIFires(text) == contains(text, SSN) \/ contains(text, CREDIT_CARD)

ContentSafetyFires(text) == contains(to_lowercase(text), VIOLENCE)

PromptInjectionFires(text) == contains(to_lowercase(text), IGNORE_ALL)

\* the deny-keywords of a policy: the strings of the array rule_json.deny_keywords
DenyKeywords(policy) ==
    IF /\ policy.rule_json.some
       /\ policy.rule_json.val.t = "object"
       /\ "deny_keywords" \in DOMAIN policy.rule_json.val.members
       /\ policy.rule_json.val.members["deny_keywords"].t = "array"
    THEN LET items == policy.rule_json.val.members["deny_keywords"].items
         IN  {items[i].s : i \in {j \in 1..Len(items) : items[j].t = "string"}}
    ELSE {}

\* the deny-keywords of the policy that the text contains, letter case aside
KeywordsIn(policy, text) ==
    {k \in DenyKeywords(policy) : contains(to_lowercase(text), to_lowercase(k))}

\* a custom policy one of whose deny-keywords the text contains
CustomDenies(policy, text) ==
    policy.policy_type = "custom" /\ KeywordsIn(policy, text) # {}

\* the positions of the fetched list that hold such a policy
DenyingPositions(r) ==
    {i \in 1..Len(policies[r].rows) :
        CustomDenies(PolicyOf(policies[r].rows[i]), input_text[r])}

\* the strongest finding: DENIED over WARN over ALLOWED
StrongestFinding(text, denied_by_custom) ==
    IF PIIFires(text) \/ ContentSafetyFires(text) \/ denied_by_custom THEN "DENIED"
    ELSE IF PromptInjectionFires(text) THEN "WARN"
    ELSE "ALLOWED"

----------------------------------------------------------------------------
(* C1 *)

\* C1: monotonicity. Once the decision of an evaluation is DENIED, no step of
\* that evaluation changes it; the response returned and the audit row inserted
\* from then on carry DENIED.
C1_Monotonic ==
    [][\A r \in Reqs :
         decision[r] = "DENIED" =>
            /\ decision'[r] = "DENIED"
            /\ (response'[r].some => response'[r].val.decision = "DENIED")
            /\ (pc[r] = "audit" /\ pc'[r] = "respond" =>
                  audit_logs'[Len(audit_logs')].decision = "DENIED")]_vars

\* a built-in check denied an input that also holds the prompt-injection phrase,
\* the loop examined a policy, the row was inserted and the response returned
C1_Witness ==
    \E r \in Reqs :
        /\ pc[r] = "done"
        /\ PIIFires(input_text[r]) /\ PromptInjectionFires(input_text[r])
        /\ scanned[r] >= 1
        /\ response[r].val.decision = "DENIED"
        /\ audit_logs[Len(audit_logs)].decision = "DENIED"

----------------------------------------------------------------------------
(* C2 *)

\* C2: the strongest finding wins. After the loop over a fetched list, the
\* decision is DENIED iff the PII check or the content-safety check fires or
\* some policy of the list is a custom policy with a deny-keyword in the input,
\* WARN iff none of these and the prompt-injection check fires, ALLOWED
\* otherwise; it depends on the set of the policies, not on their order.
C2_StrongestWins ==
    \A r \in Reqs :
        LoopOver(r) /\ policies[r].ok =>
            decision[r] = StrongestFinding(input_text[r], DenyingPositions(r) # {})

\* the prompt-injection check warned, and a custom policy that is not the first
\* of the list denied
C2_Witness ==
    \E r \in Reqs :
        /\ pc[r] = "done" /\ policies[r].ok
        /\ PromptInjectionFires(input_text[r])
        /\ ~PIIFires(input_text[r]) /\ ~ContentSafetyFires(input_text[r])
        /\ DenyingPositions(r) = {2}
        /\ response[r].val.decision = "DENIED"

----------------------------------------------------------------------------
(* C3 *)

\* the policy type that goes with the built-in check that decided, "" when none did
DecidingType(text) ==
    IF PIIFires(text) THEN "pii"
    ELSE IF ContentSafetyFires(text) THEN "content_safety"
    ELSE IF PromptInjectionFires(text) THEN "prompt_injection"
    ELSE ""

\* the first policy of the list with the given type, if there is one
FirstOfType(rows, type) ==
    LET at == {i \in 1..Len(rows) : PolicyOf(rows[i]).policy_type = type}
    IN  IF at = {} THEN None
        ELSE Some(rows[CHOOSE i \in at : \A j \in at : i <= j])

\* the positions where the loop ran a custom policy that denied
FiredPositions(r) == {i \in DenyingPositions(r) : i <= scanned[r]}

\* C3: attribution. After the loop over a fetched list, the attributed policy is
\* the custom policy that fired or, when a built-in check produced the decision,
\* the first policy of the list whose type matches that check, wherever it
\* stands in the list.
C3_AttributionFirstOfType ==
    \A r \in Reqs :
        LoopOver(r) /\ policies[r].ok =>
            IF FiredPositions(r) # {}
            THEN \E i \in FiredPositions(r) :
                    audit_policy_id[r] = Some(policies[r].rows[i])
            ELSE audit_policy_id[r] =
                    FirstOfType(policies[r].rows, DecidingType(input_text[r]))

----------------------------------------------------------------------------
(* C4 *)

\* C4: the loop ends early only at a custom policy that denied; in every other
\* case, a DENIED of a built-in check included, it examines every fetched policy.
C4_EarlyExitOnlyOnCustom ==
    \A r \in Reqs :
        LoopOver(r) /\ policies[r].ok =>
            \/ scanned[r] = Len(policies[r].rows)
            \/ scanned[r] \in DenyingPositions(r)

----------------------------------------------------------------------------
(* C5 *)

\* the marker the audit row is to carry when no policy is attributed
UNATTRIBUTED == "unattributed"

\* C5: the policy_id of the audit row of an evaluation is the id of the policy
\* attributed during it or, when none is, the fixed marker; never another id.
C5_AuditPolicyIdNotFabricated ==
    \A r \in Reqs :
        pc[r] \in {"respond", "done"} =>
            \E i \in 1..Len(audit_logs) :
                /\ audit_logs[i].agent_id = agent_id[r]
                /\ audit_logs[i].input_hash = sha256_digest(input_text[r])
                /\ audit_logs[i].policy_id =
                      IF audit_policy_id[r].some THEN audit_policy_id[r].val
                      ELSE UNATTRIBUTED

----------------------------------------------------------------------------
(* C6 *)

\* the handler of request r has ended, by returning or by unwinding
Ended(r) == pc[r] \in {"done", "panicked"}

\* C6: every evaluation that has ended produced one outcome for its caller, and
\* the audit log holds one row for each evaluation that got past the insert.
C6_OneOutcomeOneRecord ==
    /\ \A r \in Reqs : Ended(r) => response[r].some
    /\ Len(audit_logs) = Cardinality({r \in Reqs : pc[r] \in {"respond", "done", "panicked"}})

----------------------------------------------------------------------------
(* C7 *)

\* the audit insert of request r failed
AuditWriteFailed(r) == pc[r] = "panicked"

\* C7: when the audit write fails, the caller receives an outcome that reports
\* it and carries the decision that was computed.
C7_AuditErrorSurfaced ==
    \A r \in Reqs :
        AuditWriteFailed(r) =>
            /\ response[r].some
            /\ response[r].val.decision = decision[r]

----------------------------------------------------------------------------
(* C8 *)

\* what the built-in checks alone find in a text
BuiltInDecision(text) == StrongestFinding(text, FALSE)

BuiltInReason(text) ==
    IF PIIFires(text) THEN REASON_PII
    ELSE IF ContentSafetyFires(text) THEN REASON_CONTENT_SAFETY
    ELSE IF PromptInjectionFires(text) THEN REASON_PROMPT_INJECTION
    ELSE REASON_DEFAULT

BuiltInChecksRun(text) ==
    IF PIIFires(text) THEN <<CHECK_PII>>
    ELSE IF ContentSafetyFires(text) THEN <<CHECK_CONTENT_SAFETY>>
    ELSE IF PromptInjectionFires(text) THEN <<CHECK_PROMPT_INJECTION>>
    ELSE <<>>

\* C8: when the policy fetch fails the evaluation goes on, no policy is examined,
\* and decision, reason and checks_run stay what the built-in checks alone
\* produced, up to and in the response.
C8_FetchFailureKeepsBuiltIns ==
    \A r \in Reqs :
        FetchFailed(r) =>
            /\ scanned[r] = 0
            /\ decision[r] = BuiltInDecision(input_text[r])
            /\ reason[r] = BuiltInReason(input_text[r])
            /\ checks_run[r] = BuiltInChecksRun(input_text[r])
            /\ (response[r].some =>
                  response[r].val = [decision |-> BuiltInDecision(input_text[r]),
                                     reason |-> BuiltInReason(input_text[r]),
                                     checks_run |-> BuiltInChecksRun(input_text[r])])

\* the fetch failed for an input that the content-safety check denies, while
\* the table held a custom policy that matches it, and DENIED was returned
C8_Witness ==
    \E r \in Reqs :
        /\ pc[r] = "done" /\ ~policies[r].ok
        /\ ContentSafetyFires(input_text[r])
        /\ response[r].val.decision = "DENIED"
        /\ Len(policies_table) >= 1

----------------------------------------------------------------------------
(* C9 *)

\* C9: a step that makes the decision WARN is the prompt-injection check, and
\* the decision was ALLOWED before it.
C9_WarnOnlyFromAllowed ==
    [][\A r \in Reqs :
         decision'[r] = "WARN" /\ decision[r] # "WARN" =>
            decision[r] = "ALLOWED" /\ pc[r] = "prompt_injection"]_vars

\* the prompt-injection check has just turned ALLOWED into WARN
C9_Witness ==
    \E r \in Reqs :
        /\ pc[r] = "fetch"
        /\ decision[r] = "WARN"
        /\ checks_run[r] = <<CHECK_PROMPT_INJECTION>>

----------------------------------------------------------------------------
(* C10 *)

\* C10: when the loop examines a custom policy one of whose deny-keywords is
\* in the input, that step sets DENIED, a reason citing the policy's name and
\* a matched keyword, appends the one entry Custom_Policy:<name>, attributes
\* the policy and ends the loop; that policy is the first such policy of the
\* fetched list, and the attribution stays as the loop left it.
C10_CustomMatch ==
    [][\A r \in Reqs :
         /\ (pc[r] = "loop" /\ scanned'[r] = scanned[r] + 1
               /\ scanned'[r] \in DenyingPositions(r)) =>
               LET policy == PolicyOf(policies[r].rows[scanned'[r]])
               IN  /\ decision'[r] = "DENIED"
                   /\ \E k \in KeywordsIn(policy, input_text[r]) :
                         reason'[r] = format_custom_reason(policy.name, k)
                   /\ checks_run'[r] =
                         Append(checks_run[r], format_custom_check(policy.name))
                   /\ audit_policy_id'[r] = Some(policy.id)
                   /\ pc'[r] = "audit"
                   /\ \A j \in DenyingPositions(r) : scanned'[r] <= j
         /\ (LoopOver(r) => audit_policy_id'[r] = audit_policy_id[r])]_vars

\* a custom policy fired after the prompt-injection check had warned and a
\* prompt_injection policy had been attributed
C10_Witness ==
    \E r \in Reqs :
        /\ pc[r] = "audit" /\ policies[r].ok
        /\ scanned[r] = 2
        /\ PolicyOf(policies[r].rows[1]).policy_type = "prompt_injection"
        /\ checks_run[r] = <<CHECK_PROMPT_INJECTION, format_custom_check(NAME_BLK)>>
        /\ audit_policy_id[r] = Some(policies[r].rows[2])

----------------------------------------------------------------------------
(* C11 *)

\* the elements of rule_json.deny_keywords, in declared order
DeclaredKeywords(policy) == policy.rule_json.val.members["deny_keywords"].items

\* the positions of the declared list that hold a string the text contains,
\* letter case aside
OccurringAt(policy, text) ==
    {j \in 1..Len(DeclaredKeywords(policy)) :
        /\ DeclaredKeywords(policy)[j].t = "string"
        /\ contains(to_lowercase(text), to_lowercase(DeclaredKeywords(policy)[j].s))}

\* C11: rule evaluation is order-stable. When the loop examines a custom policy
\* several of whose deny-keywords occur in the input, the reason names the one
\* that comes first in the declared list, as declared, and checks_run gains one
\* entry for the policy.
C11_FirstKeywordWins ==
    [][\A r \in Reqs :
         (pc[r] = "loop" /\ scanned'[r] = scanned[r] + 1
            /\ scanned'[r] \in DenyingPositions(r)) =>
            LET policy == PolicyOf(policies[r].rows[scanned'[r]])
                at == OccurringAt(policy, input_text[r])
                first == CHOOSE j \in at : \A k \in at : j <= k
            IN  /\ reason'[r] =
                      format_custom_reason(policy.name, DeclaredKeywords(policy)[first].s)
                /\ checks_run'[r] =
                      Append(checks_run[r], format_custom_check(policy.name))]_vars

\* a custom policy fired on an input that holds two of its keywords, "Bar"
\* declared before "foo", and the reason names "Bar"
C11_Witness ==
    \E r \in Reqs :
        /\ pc[r] = "audit" /\ policies[r].ok /\ scanned[r] >= 1
        /\ scanned[r] \in DenyingPositions(r)
        /\ Cardinality(KeywordsIn(PolicyOf(policies[r].rows[scanned[r]]), input_text[r])) = 2
        /\ reason[r] = format_custom_reason(NAME_BLK, BAR)

----------------------------------------------------------------------------
(* C12 *)

\* nothing triggers for request r: no built-in check fires and no fetched
\* custom policy has a deny-keyword in the input
NothingTriggers(r) ==
    /\ BuiltInDecision(input_text[r]) = "ALLOWED"
    /\ DenyingPositions(r) = {}

\* C12: default outcome. When nothing triggers, whatever the fetched policies
\* are and also when the fetch failed, the evaluation ends with ALLOWED,
\* "No issues detected.", an empty checks_run and no attributed policy, and
\* that is what the response carries.
C12_DefaultOutcome ==
    \A r \in Reqs :
        LoopOver(r) /\ NothingTriggers(r) =>
            /\ decision[r] = "ALLOWED"
            /\ reason[r] = REASON_DEFAULT
            /\ checks_run[r] = <<>>
            /\ ~audit_policy_id[r].some
            /\ (response[r].some =>
                  response[r].val = [decision |-> "ALLOWED", reason |-> REASON_DEFAULT,
                                     checks_run |-> <<>>])

\* nothing triggered although the loop examined a policy of a built-in type
\* and a custom policy with keywords, and ALLOWED was returned
C12_Witness ==
    \E r \in Reqs :
        /\ pc[r] = "done" /\ policies[r].ok /\ NothingTriggers(r)
        /\ scanned[r] = 2
        /\ PolicyOf(policies[r].rows[1]).policy_type = "pii"
        /\ DenyKeywords(PolicyOf(policies[r].rows[2])) # {}
        /\ response[r].val.decision = "ALLOWED"

----------------------------------------------------------------------------
(* C13 *)

\* the policy loop run on its own over a list, from position i
RECURSIVE LoopAlone(_, _, _, _)
LoopAlone(L, rows, text, i) ==
    IF i > Len(rows) THEN L
    ELSE LET after == policy_body(L, PolicyOf(rows[i]), text)
         IN  IF loop_breaks(after.decision) THEN after
             ELSE LoopAlone(after, rows, text, i + 1)

\* the outcome of one evaluation run alone on a text and the result of its fetch
RunAlone(text, fetched) ==
    LET start == [decision |-> "ALLOWED", reason |-> REASON_DEFAULT,
                  checks_run |-> <<>>, audit_policy_id |-> None]
        checked == prompt_injection_check(
                       content_safety_check(pii_detection(start, text), text), text)
    IN  IF fetched.ok THEN LoopAlone(checked, fetched.rows, text, 1) ELSE checked

\* request r holds the result of its fetch
HasFetched(r) == pc[r] \in {"loop", "audit", "respond", "done", "panicked"}

\* C13: independence. Under any interleaving of the evaluations and of policy
\* creation, the outcome of each evaluation (decision, reason, checks_run,
\* attribution, and the response returned) is that of running it alone on its
\* text and on the list its own fetch returned; the list an evaluation fetched
\* is not changed by later writes to the table.
C13_Independent ==
    /\ [](\A r \in Reqs :
            LoopOver(r) =>
               LET alone == RunAlone(input_text[r], policies[r])
               IN  /\ Locals(r) = alone
                   /\ (response[r].some =>
                         response[r].val = [decision |-> alone.decision,
                                            reason |-> alone.reason,
                                            checks_run |-> alone.checks_run]))
    /\ [][\A r \in Reqs : HasFetched(r) => policies'[r] = policies[r]]_vars

\* two evaluations of the same text have ended with different decisions, one
\* having fetched before the custom policy was created and one after
C13_Witness ==
    \E r1, r2 \in Reqs :
        /\ pc[r1] = "done" /\ pc[r2] = "done"
        /\ input_text[r1] = input_text[r2]
        /\ policies[r1].ok /\ policies[r2].ok
        /\ Len(policies[r1].rows) = 0 /\ Len(policies[r2].rows) = 1
        /\ response[r1].val.decision = "WARN"
        /\ response[r2].val.decision = "DENIED"

----------------------------------------------------------------------------
(* C14 *)

\* the audit log holds a row written for request r
HasAuditRow(r) ==
    \E i \in 1..Len(audit_logs) :
        /\ audit_logs[i].agent_id = agent_id[r]
        /\ audit_logs[i].input_hash = sha256_digest(input_text[r])
        /\ audit_logs[i].decision = decision[r]

\* C14: cancellation safety. After an evaluation was cancelled at a suspension
\* point, an audit row exists for it exactly if its outcome was delivered:
\* never a row without an outcome, never an outcome without a row.
C14_CancelLeavesNothing ==
    \A r \in Reqs :
        pc[r] = "cancelled" => (HasAuditRow(r) <=> response[r].some)

----------------------------------------------------------------------------
(* C15 *)

\* C15: the input_hash of the row an evaluation inserts is the digest of its
\* input text and of nothing else (the same for the same text, whatever the
\* agent, the policies and the decision), and it is a digest, not the text.
C15_HashOfTextAlone ==
    [][\A r \in Reqs :
         (pc[r] = "audit" /\ pc'[r] = "respond") =>
            LET row == audit_logs'[Len(audit_logs')]
            IN  /\ Len(audit_logs') = Len(audit_logs) + 1
                /\ row.input_hash = sha256_digest(input_text[r])
                /\ row.input_hash \in 0..65535]_vars

\* a row was inserted for agent-B and a denied text while the table held a policy
C15_Witness ==
    \E r \in Reqs :
        /\ pc[r] = "respond"
        /\ agent_id[r] = "agent-B"
        /\ decision[r] = "DENIED"
        /\ Len(policies_table) >= 1
        /\ audit_logs[Len(audit_logs)].input_hash = sha256_digest(input_text[r])

----------------------------------------------------------------------------
(* C16 *)

\* checks_run holds the one built-in identifier that precedence selects (none
\* when no built-in check fires), then at most one entry of a fetched custom policy
ChecksRunShape(r) ==
    \/ checks_run[r] = BuiltInChecksRun(input_text[r])
    \/ \E i \in 1..Len(policies[r].rows) :
          /\ PolicyOf(policies[r].rows[i]).policy_type = "custom"
          /\ checks_run[r] =
                Append(BuiltInChecksRun(input_text[r]),
                       format_custom_check(PolicyOf(policies[r].rows[i]).name))

\* C16 as stated: in every outcome checks_run has that shape, and an input
\* that triggers PII ends with a reason that says "PII detected" and a
\* checks_run that starts with PII_Detection.
C16_PIIReasonAlways ==
    \A r \in Reqs :
        LoopOver(r) =>
            /\ ChecksRunShape(r)
            /\ (PIIFires(input_text[r]) =>
                  /\ contains(reason[r], PII_DETECTED)
                  /\ checks_run[r][1] = CHECK_PII)

\* C16 as amended: in every outcome checks_run has that shape; an input that
\* triggers PII ends with a checks_run that starts with PII_Detection, and
\* with the reason "PII detected in prompt." unless the first fetched policy
\* is a custom policy with a deny-keyword in the input, in which case the
\* reason is the one of that custom policy.
C16_BuiltInPrecedence ==
    \A r \in Reqs :
        LoopOver(r) =>
            /\ ChecksRunShape(r)
            /\ (PIIFires(input_text[r]) =>
                  /\ checks_run[r][1] = CHECK_PII
                  /\ IF 1 \in DenyingPositions(r)
                     THEN LET policy == PolicyOf(policies[r].rows[1])
                          IN  \E k \in KeywordsIn(policy, input_text[r]) :
                                 reason[r] = format_custom_reason(policy.name, k)
                     ELSE reason[r] = REASON_PII)

\* an input that holds the PII, content-safety and prompt-injection triggers
\* went through the loop and was answered with PII_Detection alone
C16_Witness ==
    \E r \in Reqs :
        /\ pc[r] = "done"
        /\ PIIFires(input_text[r])
        /\ ContentSafetyFires(input_text[r])
        /\ PromptInjectionFires(input_text[r])
        /\ scanned[r] >= 1
        /\ response[r].val.checks_run = <<CHECK_PII>>
        /\ response[r].val.reason = REASON_PII

----------------------------------------------------------------------------
(* C17 *)

\* C17: a caller that received an outcome finds an audit row of that
\* evaluation (its agent, the digest of its text) with the same decision: the
\* response is returned only after the insert succeeded.
C17_ResponseAfterAudit ==
    \A r \in Reqs :
        response[r].some =>
            \E i \in 1..Len(audit_logs) :
                /\ audit_logs[i].agent_id = agent_id[r]
                /\ audit_logs[i].input_hash = sha256_digest(input_text[r])
                /\ audit_logs[i].decision = response[r].val.decision

\* a WARN was returned and the audit log holds the row with WARN
C17_Witness ==
    \E r \in Reqs :
        /\ pc[r] = "done"
        /\ response[r].val.decision = "WARN"
        /\ Len(audit_logs) = 1
        /\ audit_logs[1].decision = "WARN"

----------------------------------------------------------------------------
(* C18 *)

\* C18: after the loop the attribution agrees with the outcome. An attributed
\* pii policy goes with DENIED and the PII reason, a content_safety policy with
\* DENIED and the content-safety reason, a prompt_injection policy with WARN,
\* a custom policy with DENIED and a reason citing its name; with ALLOWED no
\* policy is attributed.
C18_AttributionConsistent ==
    \A r \in Reqs :
        LoopOver(r) =>
            /\ (decision[r] = "ALLOWED" => ~audit_policy_id[r].some)
            /\ (audit_policy_id[r].some =>
                  LET policy == PolicyOf(audit_policy_id[r].val)
                  IN  CASE policy.policy_type = "pii" ->
                             decision[r] = "DENIED" /\ reason[r] = REASON_PII
                        [] policy.policy_type = "content_safety" ->
                             decision[r] = "DENIED" /\ reason[r] = REASON_CONTENT_SAFETY
                        [] policy.policy_type = "prompt_injection" ->
                             decision[r] = "WARN"
                        [] policy.policy_type = "custom" ->
                             /\ decision[r] = "DENIED"
                             /\ \E k \in KeywordsIn(policy, input_text[r]) :
                                   reason[r] = format_custom_reason(policy.name, k)
                        [] OTHER -> FALSE)

\* the content_safety policy that stands first in a list of two was attributed
\* for an input the content-safety check denied
C18_Witness ==
    \E r \in Reqs :
        /\ pc[r] = "audit" /\ policies[r].ok
        /\ scanned[r] = 1
        /\ audit_policy_id[r].some
        /\ PolicyOf(audit_policy_id[r].val).policy_type = "content_safety"
        /\ decision[r] = "DENIED"
        /\ Len(policies[r].rows) = 2

----------------------------------------------------------------------------
(* C19 *)

\* the prompt-injection check warned, and in the fetched list a
\* prompt_injection policy stands before the first custom policy that denies
WarnThenCustom(r) ==
    /\ policies[r].ok
    /\ BuiltInDecision(input_text[r]) = "WARN"
    /\ DenyingPositions(r) # {}
    /\ \E i \in 1..Len(policies[r].rows) :
          /\ PolicyOf(policies[r].rows[i]).policy_type = "prompt_injection"
          /\ \A j \in DenyingPositions(r) : i < j

\* C19: a custom match overrides an earlier WARN and an earlier attribution.
\* In that case the evaluation ends with DENIED, the custom policy's reason,
\* checks_run = [Prompt_Injection, Custom_Policy:<name>] and the custom
\* policy's id attributed, not the prompt_injection policy's.
C19_CustomOverridesWarn ==
    \A r \in Reqs :
        LoopOver(r) /\ WarnThenCustom(r) =>
            LET first == CHOOSE j \in DenyingPositions(r) :
                            \A k \in DenyingPositions(r) : j <= k
                policy == PolicyOf(policies[r].rows[first])
            IN  /\ decision[r] = "DENIED"
                /\ \E k \in KeywordsIn(policy, input_text[r]) :
                      reason[r] = format_custom_reason(policy.name, k)
                /\ checks_run[r] =
                      <<CHECK_PROMPT_INJECTION, format_custom_check(policy.name)>>
                /\ audit_policy_id[r] = Some(policy.id)
                /\ PolicyOf(audit_policy_id[r].val).policy_type = "custom"

\* such an evaluation has returned DENIED to its caller
C19_Witness ==
    \E r \in Reqs :
        /\ pc[r] = "done" /\ WarnThenCustom(r)
        /\ response[r].val.decision = "DENIED"
        /\ Len(response[r].val.checks_run) = 2
        /\ audit_policy_id[r] = Some(policies[r].rows[2])
====
